---------------------------- MODULE Spec2Model ----------------------------
(***************************************************************************)
(* A model of app.py, the SvelteKit context generator: main,               *)
(* process_directory and the pure helpers they call.                       *)
(*                                                                         *)
(* Text is modelled as a sequence of characters, each character a string   *)
(* of its own, so that substring tests, suffixes, splitting and byte       *)
(* lengths are computed and not assumed.  Two characters stand for more    *)
(* than one ASCII byte: "U+00E9" is the code point U+00E9 (two bytes in    *)
(* UTF-8) and "\\xFF" is a byte that no UTF-8 text contains.                *)
(***************************************************************************)
EXTENDS Integers, Sequences, FiniteSets, TLC

(***************************************************************************)
(* Characters and strings                                                  *)
(***************************************************************************)

\* The characters of the model in ascending code point order.
CodePoints ==
    << "\n", " ", "!", "\"", "#", ",", "-", ".", "/", "0", "1", "2", "9", ":",
       "=", "D", "G", "N", "P", "S", "[", "\\", "]", "_",
       "a", "b", "c", "d", "e", "f", "g", "h", "i", "j", "k", "l", "m", "n",
       "o", "p", "r", "s", "t", "u", "v", "w", "x", "y", "{", "}",
       "U+00E9", "\\xFF" >>

Ord(c) == CHOOSE i \in 1..Len(CodePoints) : CodePoints[i] = c

\* str.lower on one character
LowerChar(c) ==
    CASE c = "G" -> "g"
      [] c = "N" -> "n"
      [] c = "P" -> "p"
      [] OTHER   -> c

Lower(s) == [i \in 1..Len(s) |-> LowerChar(s[i])]

\* str.isspace on one character
IsSpace(c) == c \in {" ", "\n"}

\* needle in hay
Contains(hay, needle) ==
    \E i \in 0..(Len(hay) - Len(needle)) :
        SubSeq(hay, i + 1, i + Len(needle)) = needle

StartsWith(s, p) == Len(p) <= Len(s) /\ SubSeq(s, 1, Len(p)) = p

EndsWith(s, p) ==
    Len(p) <= Len(s) /\ SubSeq(s, Len(s) - Len(p) + 1, Len(s)) = p

\* s.count(c) for a single character c
Count(s, c) == Cardinality({i \in 1..Len(s) : s[i] = c})

\* the comparison of str: lexicographic by code point
StrLess(a, b) ==
    \E i \in 1..(Len(b)) :
        /\ i <= Len(a) + 1
        /\ SubSeq(a, 1, i - 1) = SubSeq(b, 1, i - 1)
        /\ \/ i = Len(a) + 1
           \/ Ord(a[i]) < Ord(b[i])

\* sorted(S) for a set of strings
RECURSIVE Sorted(_)
Sorted(S) ==
    IF S = {} THEN << >>
    ELSE LET m == CHOOSE x \in S : \A y \in S \ {x} : StrLess(x, y)
         IN  << m >> \o Sorted(S \ {m})

\* s.split(sep) for a single character sep
RECURSIVE Split(_, _)
Split(s, sep) ==
    IF \A i \in 1..Len(s) : s[i] # sep THEN << s >>
    ELSE LET k == CHOOSE i \in 1..Len(s) :
                     s[i] = sep /\ \A j \in 1..(i - 1) : s[j] # sep
         IN  << SubSeq(s, 1, k - 1) >> \o Split(SubSeq(s, k + 1, Len(s)), sep)

\* sep.join(parts)
RECURSIVE Join(_, _)
Join(parts, sep) ==
    IF parts = << >> THEN << >>
    ELSE IF Len(parts) = 1 THEN parts[1]
    ELSE parts[1] \o sep \o Join(Tail(parts), sep)

\* s.replace(old, '') for a non-empty old
RECURSIVE Remove(_, _)
Remove(s, old) ==
    IF s = << >> THEN << >>
    ELSE IF StartsWith(s, old) THEN Remove(SubSeq(s, Len(old) + 1, Len(s)), old)
    ELSE << s[1] >> \o Remove(Tail(s), old)

\* len(s.encode('utf-8'))
Utf8Len(s) ==
    LET RECURSIVE N(_)
        N(i) == IF i = 0 THEN 0
                ELSE N(i - 1) + (IF s[i] = "U+00E9" THEN 2 ELSE 1)
    IN  N(Len(s))

\* bytes.decode('utf-8') succeeds
Decodable(bytes) == \A i \in 1..Len(bytes) : bytes[i] # "\\xFF"

SEP == << "/" >>

\* os.path.join(a, b) for a relative b
PathJoin(a, b) == a \o SEP \o b

\* Path(p).name
Basename(p) == LET parts == Split(p, "/") IN parts[Len(parts)]

\* Path(p).suffix
Suffix(p) ==
    LET name == Basename(p)
        dots == {i \in 1..Len(name) : name[i] = "."}
    IN  IF dots = {} THEN << >>
        ELSE LET i == CHOOSE d \in dots : \A e \in dots : e <= d
             IN  IF 1 < i /\ i < Len(name) THEN SubSeq(name, i, Len(name))
                 ELSE << >>

(***************************************************************************)
(* get_file_type                                                           *)
(***************************************************************************)

E_svelte == << ".", "s", "v", "e", "l", "t", "e" >>
E_ts     == << ".", "t", "s" >>
E_js     == << ".", "j", "s" >>
E_css    == << ".", "c", "s", "s" >>
E_scss   == << ".", "s", "c", "s", "s" >>
E_json   == << ".", "j", "s", "o", "n" >>
E_md     == << ".", "m", "d" >>
E_html   == << ".", "h", "t", "m", "l" >>

get_file_type(file_path) ==
    LET ext == Lower(Suffix(file_path))
    IN  CASE ext = E_svelte -> "svelte"
          [] ext = E_ts     -> "typescript"
          [] ext = E_js     -> "javascript"
          [] ext = E_css    -> "css"
          [] ext = E_scss   -> "scss"
          [] ext = E_json   -> "json"
          [] ext = E_md     -> "markdown"
          [] ext = E_html   -> "html"
          [] OTHER          -> "text"

(***************************************************************************)
(* json.loads and json.dumps(..., separators=(',', ':')), on the texts of   *)
(* the model: whitespace is space and newline, the only digit is 1 (so a   *)
(* number is a run of 1s), and a string holds no backslash.  A value is    *)
(* [t, v]: t its kind, v its digits, its characters, its elements or its   *)
(* (key, value) pairs in dict order.                                       *)
(***************************************************************************)

JsonFail == [ok |-> FALSE, val |-> << >>, next |-> 0]

At(s, i) == IF 1 <= i /\ i <= Len(s) THEN s[i] ELSE "EOF"

\* the first position from i on that holds no whitespace
SkipWs(s, i) ==
    CHOOSE j \in i..(Len(s) + 1) :
        /\ ~IsSpace(At(s, j))
        /\ \A k \in i..(j - 1) : IsSpace(s[k])

\* the string whose opening quote is at i - 1 (py_scanstring, strict)
ParseString(s, i) ==
    LET quotes == {k \in i..Len(s) : s[k] = "\""}
    IN  IF quotes = {} THEN JsonFail
        ELSE LET k == CHOOSE q \in quotes : \A r \in quotes : q <= r
             IN  IF \E j \in i..(k - 1) : s[j] = "\n" THEN JsonFail
                 ELSE [ok |-> TRUE, val |-> SubSeq(s, i, k - 1), next |-> k + 1]

\* d[key] = value on a dict kept as a sequence of pairs in insertion order
DictPut(items, key, value) ==
    IF \E n \in 1..Len(items) : items[n][1] = key
    THEN [n \in 1..Len(items) |->
            IF items[n][1] = key THEN << key, value >> ELSE items[n]]
    ELSE Append(items, << key, value >>)

RECURSIVE ParseValue(_, _), ParseMembers(_, _, _), ParseElements(_, _, _)

\* JSONObject after a member: items are the members so far, e is the place of
\* the closing brace or of the comma
MembersNext(s, items, e) ==
    CASE At(s, e) = "}" ->
           [ok |-> TRUE, val |-> [t |-> "obj", v |-> items], next |-> e + 1]
      [] At(s, e) = "," -> ParseMembers(s, SkipWs(s, e + 1), items)
      [] OTHER -> JsonFail

\* JSONObject after the colon of the member named key: r is its parsed value
MembersValue(s, items, key, r) ==
    IF ~r.ok THEN JsonFail
    ELSE MembersNext(s, DictPut(items, key, r.val), SkipWs(s, r.next))

\* JSONObject after a key: k is the parsed key, j the place of the colon
MembersColon(s, items, k, j) ==
    IF At(s, j) # ":" THEN JsonFail
    ELSE MembersValue(s, items, k.val, ParseValue(s, SkipWs(s, j + 1)))

MembersKey(s, items, k) ==
    IF ~k.ok THEN JsonFail ELSE MembersColon(s, items, k, SkipWs(s, k.next))

\* JSONObject, after the opening brace, at the quote of the next key
ParseMembers(s, i, items) ==
    IF At(s, i) # "\"" THEN JsonFail
    ELSE MembersKey(s, items, ParseString(s, i + 1))

\* JSONArray after an element: e is the place of the closing bracket or comma
ElementsNext(s, items, e) ==
    CASE At(s, e) = "]" ->
           [ok |-> TRUE, val |-> [t |-> "arr", v |-> items], next |-> e + 1]
      [] At(s, e) = "," -> ParseElements(s, SkipWs(s, e + 1), items)
      [] OTHER -> JsonFail

ElementsValue(s, items, r) ==
    IF ~r.ok THEN JsonFail
    ELSE ElementsNext(s, Append(items, r.val), SkipWs(s, r.next))

\* JSONArray, after the opening bracket, at the next element
ParseElements(s, i, items) == ElementsValue(s, items, ParseValue(s, i))

\* a run of digits from i on
ParseInt(s, i, k) ==
    [ok |-> TRUE, val |-> [t |-> "int", v |-> SubSeq(s, i, k)], next |-> k + 1]

\* a value that is a string: r is the parsed string
StringValue(r) ==
    IF r.ok THEN [ok |-> TRUE, val |-> [t |-> "str", v |-> r.val], next |-> r.next]
    ELSE JsonFail

\* after an opening brace or bracket: j is the first place that is not blank
Opened(s, c, j) ==
    IF c = "{"
    THEN IF At(s, j) = "}"
         THEN [ok |-> TRUE, val |-> [t |-> "obj", v |-> << >>], next |-> j + 1]
         ELSE ParseMembers(s, j, << >>)
    ELSE IF At(s, j) = "]"
         THEN [ok |-> TRUE, val |-> [t |-> "arr", v |-> << >>], next |-> j + 1]
         ELSE ParseElements(s, j, << >>)

\* scan_once
ParseValue(s, i) ==
    CASE At(s, i) = "\"" -> StringValue(ParseString(s, i + 1))
      [] At(s, i) \in {"{", "["} -> Opened(s, At(s, i), SkipWs(s, i + 1))
      [] At(s, i) = "1" ->
           ParseInt(s, i, CHOOSE j \in i..Len(s) :
                              /\ \A m \in i..j : s[m] = "1"
                              /\ At(s, j + 1) # "1")
      [] OTHER -> JsonFail

\* json.loads after the value: whitespace may follow it and nothing else
LoadsEnd(s, r) ==
    IF r.ok /\ SkipWs(s, r.next) = Len(s) + 1 THEN r ELSE JsonFail

\* json.loads
json_loads(s) == LoadsEnd(s, ParseValue(s, SkipWs(s, 1)))

\* the escape of one character of a string under ensure_ascii
JsonChar(c) ==
    IF c = "U+00E9" THEN << "\\", "u", "0", "0", "e", "9" >> ELSE << c >>

JsonStr(s) ==
    LET RECURSIVE Esc(_)
        Esc(i) == IF i > Len(s) THEN << >> ELSE JsonChar(s[i]) \o Esc(i + 1)
    IN  << "\"" >> \o Esc(1) \o << "\"" >>

RECURSIVE json_dumps(_)
json_dumps(val) ==
    CASE val.t = "int" -> val.v
      [] val.t = "str" -> JsonStr(val.v)
      [] val.t = "arr" ->
           << "[" >>
           \o Join([n \in 1..Len(val.v) |-> json_dumps(val.v[n])], << "," >>)
           \o << "]" >>
      [] val.t = "obj" ->
           << "{" >>
           \o Join([n \in 1..Len(val.v) |->
                      JsonStr(val.v[n][1]) \o << ":" >> \o json_dumps(val.v[n][2])],
                   << "," >>)
           \o << "}" >>

(***************************************************************************)
(* minify_content                                                          *)
(***************************************************************************)

\* content.split(): the maximal runs of characters that are not whitespace
RECURSIVE Words(_)
Words(s) ==
    LET WordFrom(i, j) == << SubSeq(s, i, j) >> \o Words(SubSeq(s, j + 1, Len(s)))
        From(i) ==
            IF i > Len(s) THEN << >>
            ELSE WordFrom(i, CHOOSE j \in i..Len(s) :
                                /\ \A m \in i..j : ~IsSpace(s[m])
                                /\ IsSpace(At(s, j + 1)) \/ j = Len(s))
    IN  From(SkipWs(s, 1))

ExternalTypes == {"javascript", "typescript", "css", "scss", "html", "svelte"}

\* What a call of jsmin, csscompressor or htmlmin may do with a text: raise,
\* or return the text with some of its whitespace characters deleted.  The
\* libraries are not part of the repository; the caller sees one of these.
LibraryOutcomes(content) ==
    LET ws == {i \in 1..Len(content) : IsSpace(content[i])}
        Del(D) == LET keep == {i \in 1..Len(content) : i \notin D}
                      RECURSIVE Pick(_)
                      Pick(i) == IF i > Len(content) THEN << >>
                                 ELSE (IF i \in keep THEN << content[i] >> ELSE << >>)
                                      \o Pick(i + 1)
                  IN  Pick(1)
    IN  {[raises |-> TRUE, text |-> << >>]}
        \cup {[raises |-> FALSE, text |-> Del(D)] : D \in SUBSET ws}

\* The json branch: r is json.loads(content), and a content that does not
\* parse raises
JsonBranch(content, r) == IF r.ok THEN json_dumps(r.val) ELSE content

\* lib is the outcome of the library call the branch makes, if it makes one;
\* whatever the try block raises, the content is returned as it came.
\* The svelte branch (regular expressions around the two libraries) is taken
\* as one library call; no text of the model is a svelte component.
minify_content(content, file_type, lib) ==
    CASE file_type \in ExternalTypes -> IF lib.raises THEN content ELSE lib.text
      [] file_type = "json"          -> JsonBranch(content, json_loads(content))
      [] OTHER                       -> Join(Words(content), << " " >>)

(***************************************************************************)
(* calculate_size_reduction and the .1f format of its percentage           *)
(***************************************************************************)

\* f"{n / d * 100:.1f}" in tenths of a percent: the nearest tenth, a tie (which
\* needs d to be a multiple of 16) to the even one.
Format1f(n, d) ==
    LET q   == (2000 * n + d) \div (2 * d)
        tie == (2000 * n + d) % (2 * d) = 0
    IN  IF tie /\ q % 2 # 0 THEN q - 1 ELSE q

\* calculate_size_reduction measuring characters, len(original), not bytes
calculate_size_reduction_in_characters(original, minified) ==
    IF Len(original) = 0
    THEN [raises |-> TRUE, original_size |-> 0, minified_size |-> 0,
          reduction |-> << 0, 1 >>]
    ELSE [raises |-> FALSE, original_size |-> Len(original),
          minified_size |-> Len(minified),
          reduction |-> << Len(original) - Len(minified), Len(original) >>]

\* raises: ZeroDivisionError.  reduction is kept as the fraction it is 100
\* times, << numerator, denominator >>.
calculate_size_reduction(original, minified) ==
    LET original_size == Utf8Len(original)
        minified_size == Utf8Len(minified)
    IN  IF original_size = 0
        THEN [raises |-> TRUE, original_size |-> 0, minified_size |-> 0,
              reduction |-> << 0, 1 >>]
        ELSE [raises |-> FALSE, original_size |-> original_size,
              minified_size |-> minified_size,
              reduction |-> << original_size - minified_size, original_size >>]

(***************************************************************************)
(* format_file_content.  The block is [raises, header, text]: header holds *)
(* the attributes of the <file ...> line (sizes is << >> or << original,   *)
(* minified, reduction in tenths >>), text is what follows that line, the  *)
(* literal pieces (the fence of three backquotes, written FENCE, the type   *)
(* name and "</file>") each one element.                                   *)
(***************************************************************************)

FENCE == "FENCE"

\* Block adding a newline whether or not the content ends in one
Block_always_adds_newline(file_path, file_type, sizes, content) ==
    [raises |-> FALSE,
     header |-> [path |-> file_path, type |-> file_type, sizes |-> sizes],
     text   |-> << FENCE, file_type, "\n" >>
                \o content
                \o << "\n" >>
                \o << FENCE, "\n", "</file>", "\n", "\n" >>]

\* the block of a content under a header
Block(file_path, file_type, sizes, content) ==
    [raises |-> FALSE,
     header |-> [path |-> file_path, type |-> file_type, sizes |-> sizes],
     text   |-> << FENCE, file_type, "\n" >>
                \o content
                \o (IF ~EndsWith(content, << "\n" >>) THEN << "\n" >> ELSE << >>)
                \o << FENCE, "\n", "</file>", "\n", "\n" >>]

\* the minify branch after calculate_size_reduction returned or raised r
SizedBlock(file_path, file_type, r, minified_content) ==
    IF r.raises
    THEN [raises |-> TRUE,
          header |-> [path |-> file_path, type |-> file_type, sizes |-> << >>],
          text   |-> << >>]
    ELSE Block(file_path, file_type,
               << r.original_size, r.minified_size,
                  Format1f(r.reduction[1], r.reduction[2]) >>,
               minified_content)

\* the minify branch after minify_content returned
MinifiedBlock(file_path, file_type, original_content, minified_content) ==
    SizedBlock(file_path, file_type,
               calculate_size_reduction(original_content, minified_content),
               minified_content)

format_file_content(file_path, content, file_type, minify, lib) ==
    IF minify
    THEN MinifiedBlock(file_path, file_type, content,
                       minify_content(content, file_type, lib))
    ELSE Block(file_path, file_type, << >>, content)

(***************************************************************************)
(* GitignoreFilter.  A PathSpec is the sequence of its patterns, each      *)
(* [include, text]; the patterns of the model are literal names and paths  *)
(* (no wildcard, no trailing slash), optionally negated.                   *)
(***************************************************************************)

\* os.path.relpath(path, root_dir) for a path at or under root_dir
Relpath(path, root_dir) ==
    IF path = root_dir THEN << "." >>
    ELSE SubSeq(path, Len(root_dir) + 2, Len(path))

\* GitWildMatchPattern: one line of the file, or none for a blank or a comment
ParsePatterns(lines) ==
    LET RECURSIVE P(_)
        P(i) ==
            IF i > Len(lines) THEN << >>
            ELSE LET l == lines[i]
                 IN  (IF l = << >> \/ l[1] = "#" THEN << >>
                      ELSE IF l[1] = "!"
                           THEN << [include |-> FALSE, text |-> Tail(l)] >>
                           ELSE << [include |-> TRUE, text |-> l] >>)
                     \o P(i + 1)
    IN  P(1)

\* pattern.match_file(rel): a pattern with a slash is anchored at the root, one
\* without matches a component anywhere; both match everything beneath too
PatternMatches(pat, rel) ==
    IF Contains(pat, SEP)
    THEN rel = pat \/ StartsWith(rel, pat \o SEP)
    ELSE LET parts == Split(rel, "/")
         IN  \E n \in 1..Len(parts) : parts[n] = pat

\* PathSpec.match_file: the last pattern that matches decides
match_file(spec, rel) ==
    LET hits == {n \in 1..Len(spec) : PatternMatches(spec[n].text, rel)}
    IN  IF hits = {} THEN FALSE
        ELSE spec[CHOOSE n \in hits : \A m \in hits : m <= n].include

\* _load_gitignore: gitignore is << >> when the file is absent, else
\* << its bytes >>
_load_gitignore(gitignore) ==
    IF gitignore = << >> THEN << >>
    ELSE IF ~Decodable(gitignore[1]) THEN << >>
    ELSE ParsePatterns(Split(gitignore[1], "\n"))

is_ignored(self, path) == match_file(self.spec, Relpath(path, self.root_dir))

(***************************************************************************)
(* should_include_file                                                     *)
(***************************************************************************)

P_node_modules == << "n", "o", "d", "e", "_", "m", "o", "d", "u", "l", "e", "s" >>
P_git          == << ".", "g", "i", "t" >>
P_svelte_kit   == << ".", "s", "v", "e", "l", "t", "e", "-", "k", "i", "t" >>
P_build        == << "b", "u", "i", "l", "d" >>
P_pycache      == << "_", "_", "p", "y", "c", "a", "c", "h", "e", "_", "_" >>
P_DS_Store     == << ".", "D", "S", "_", "S", "t", "o", "r", "e" >>
P_env          == << ".", "e", "n", "v" >>
P_package_lock == << "p", "a", "c", "k", "a", "g", "e", "-", "l", "o", "c", "k",
                     ".", "j", "s", "o", "n" >>
P_package_json == << "p", "a", "c", "k", "a", "g", "e", ".", "j", "s", "o", "n" >>
P_yarn_lock    == << "y", "a", "r", "n", ".", "l", "o", "c", "k" >>

skip_patterns ==
    << P_node_modules, P_git, P_svelte_kit, P_build, P_pycache, P_DS_Store,
       P_env, P_package_lock, P_package_json, P_yarn_lock >>

binary_extensions ==
    { << ".", "p", "n", "g" >>, << ".", "j", "p", "g" >>,
      << ".", "j", "p", "e", "g" >>, << ".", "g", "i", "f" >>,
      << ".", "i", "c", "o" >>, << ".", "w", "o", "f", "f" >>,
      << ".", "w", "o", "f", "f", "2" >>, << ".", "t", "t", "f" >>,
      << ".", "e", "o", "t" >> }

\* should_include_file comparing the suffix as it is spelled
should_include_file_case_sensitive(file_path, exclude_patterns, gitignore_filter) ==
    LET patterns == skip_patterns \o exclude_patterns
    IN  /\ ~is_ignored(gitignore_filter, file_path)
        /\ ~Contains(file_path, P_DS_Store)
        /\ ~Contains(file_path, P_node_modules)
        /\ \A n \in 1..Len(patterns) : ~Contains(file_path, patterns[n])
        /\ Suffix(file_path) \notin binary_extensions

should_include_file(file_path, exclude_patterns, gitignore_filter) ==
    LET patterns == skip_patterns \o exclude_patterns
    IN  /\ ~is_ignored(gitignore_filter, file_path)
        /\ ~Contains(file_path, P_DS_Store)
        /\ ~Contains(file_path, P_node_modules)
        /\ \A n \in 1..Len(patterns) : ~Contains(file_path, patterns[n])
        /\ Lower(Suffix(file_path)) \notin binary_extensions

(***************************************************************************)
(* The directory trees, arguments and files of the model                   *)
(***************************************************************************)

\* The most files a tree holds
MaxFiles == 3

N_a_json     == << "a", ".", "j", "s", "o", "n" >>
N_b_txt      == << "b", ".", "t", "x", "t" >>
N_d_txt      == << "d", ".", "t", "x", "t" >>
N_logo_png   == << "l", "o", "g", "o", ".", "p", "n", "g" >>
N_x_PNG      == << "x", ".", "P", "N", "G" >>
N_gitignore  == << ".", "g", "i", "t", "i", "g", "n", "o", "r", "e" >>
N_k_md       == << "k", ".", "m", "d" >>
N_m_js       == << "m", ".", "j", "s" >>
N_o_txt      == << "o", ".", "t", "x", "t" >>
N_n_txt      == << "n", ".", "t", "x", "t" >>
N_src        == << "s", "r", "c" >>
N_out        == << "o", "u", "t" >>
N_proj       == << "p", "r", "o", "j" >>
N_mybuild    == << "m", "y", "b", "u", "i", "l", "d" >>

\* {"a":   1}
T_json       == << "{", "\"", "a", "\"", ":", " ", " ", " ", "1", "}" >>
\* {"a":
T_json_cut   == << "{", "\"", "a", "\"", ":" >>
T_text       == << "U+00E9", " ", " ", "y", "\n" >>
T_md         == << "#", " ", "k", "\n" >>
T_js         == << "x", " ", "=", " ", "1" >>
T_binary     == << "\\xFF" >>
\* the three .gitignore files
G_b_txt      == N_b_txt
G_src_not_k  == N_src \o << "\n", "!" >> \o N_src \o SEP \o N_k_md \o << "\n" >>
G_not_logo   == << "!" >> \o N_logo_png

File(dir, name, bytes) == [dir |-> dir, name |-> name, bytes |-> bytes]

Candidates ==
    { File(<< >>, N_a_json, T_json),
      File(<< >>, N_a_json, T_json_cut),
      File(<< >>, N_a_json, << >>),
      File(<< >>, N_b_txt, T_text),
      File(<< >>, N_d_txt, T_binary),
      File(<< >>, N_logo_png, T_binary),
      File(<< >>, N_x_PNG, << "x" >>),
      File(<< >>, N_gitignore, G_b_txt),
      File(<< >>, N_gitignore, G_src_not_k),
      File(<< >>, N_gitignore, G_not_logo),
      File(<< N_src >>, N_k_md, T_md),
      File(<< N_src >>, N_m_js, T_js),
      File(<< P_build, N_out >>, N_o_txt, << "o" >>),
      File(<< P_node_modules >>, N_n_txt, << "n" >>) }

\* A tree is the set of its files; its directories are those on their paths.
Trees ==
    {T \in SUBSET Candidates :
        /\ Cardinality(T) <= MaxFiles
        /\ \A f, g \in T : f.dir = g.dir /\ f.name = g.name => f = g}

Directories == {N_proj, N_mybuild}

ExcludeLists == {<< >>, << N_src >>}

\* the path of the directory whose components below the root are rel
DirPath(top, rel) == Join(<< top >> \o rel, SEP)

\* os.scandir: the subdirectories and the files of a directory of the tree
SubdirNames(T, rel) ==
    {f.dir[Len(rel) + 1] :
        f \in {g \in T : Len(g.dir) > Len(rel) /\ SubSeq(g.dir, 1, Len(rel)) = rel}}

FileNames(T, rel) == {f.name : f \in {g \in T : g.dir = rel}}

\* the bytes of the file of the tree at rel/name
BytesOf(T, rel, name) ==
    (CHOOSE f \in T : f.dir = rel /\ f.name = name).bytes

(***************************************************************************)
(* The program state                                                       *)
(***************************************************************************)

VARIABLES
    tree,                 \* the file system under the directory argument
    directory,            \* args.directory
    exclude_patterns,     \* args.exclude
    minify,               \* args.minify
    pc,                   \* where main is
    gitignore_filter,     \* process_directory's GitignoreFilter
    walk,                 \* os.walk: the directories still to visit, in order
    pending,              \* the content pass: << directory, its files left >>
    out,                  \* the output file: one element per out_file.write
    total_original_size,
    total_minified_size,
    message,              \* the last line main or process_directory printed
    ret                   \* what main returned: "None", "0" or "1"

vars == << tree, directory, exclude_patterns, minify, pc, gitignore_filter,
           walk, pending, out, total_original_size, total_minified_size,
           message, ret >>

inputs == << tree, directory, exclude_patterns, minify >>

NoLibrary == [raises |-> FALSE, text |-> << >>]

Init ==
    /\ tree \in Trees
    /\ directory \in Directories
    /\ exclude_patterns \in ExcludeLists
    /\ minify \in BOOLEAN
    /\ pc = "main"
    /\ gitignore_filter = [root_dir |-> << >>, spec |-> << >>]
    /\ walk = << >>
    /\ pending = << << >>, << >> >>
    /\ out = << >>
    /\ total_original_size = 0
    /\ total_minified_size = 0
    /\ message = ""
    /\ ret = "unset"

\* exit(main()): None is status 0
ExitStatus(r) == IF r = "1" THEN 1 ELSE 0

(***************************************************************************)
(* main and process_directory                                              *)
(***************************************************************************)

\* GitignoreFilter(directory)
GitignoreFilter(root_dir) ==
    [root_dir |-> root_dir,
     spec |-> _load_gitignore(
                 IF N_gitignore \in FileNames(tree, << >>)
                 THEN << BytesOf(tree, << >>, N_gitignore) >>
                 ELSE << >>)]

\* main up to the call of process_directory: the argument is a directory or
\* is not
CheckDirectory ==
    /\ pc = "main"
    /\ \E isdir \in BOOLEAN :
          IF isdir
          THEN /\ pc' = "process"
               /\ UNCHANGED << message, ret >>
          ELSE /\ pc' = "exit"
               /\ message' = "Error: not a valid directory"
               /\ ret' = "None"
    /\ UNCHANGED << inputs, gitignore_filter, walk, pending, out,
                    total_original_size, total_minified_size >>

\* process_directory up to the first os.walk: open(output_file, 'w')
\* succeeds or raises; a raise is printed, raised again and main returns 1
OpenOutput ==
    /\ pc = "process"
    /\ gitignore_filter' = GitignoreFilter(directory)
    /\ \E opens \in BOOLEAN :
          IF opens
          THEN /\ out' = << [w |-> "<project>"], [w |-> "<structure>"] >>
               /\ walk' = << << >> >>
               /\ pc' = "structure"
               /\ UNCHANGED << message, ret >>
          ELSE /\ pc' = "exit"
               /\ message' = "Error: cannot open the output file"
               /\ ret' = "1"
               /\ UNCHANGED << out, walk >>
    /\ UNCHANGED << inputs, pending, total_original_size, total_minified_size >>

\* dirs[:] = [...]: the subdirectories the structure pass keeps
KeptDirs(root, names) ==
    SelectSeq(names,
        LAMBDA d :
            /\ ~is_ignored(gitignore_filter, PathJoin(root, d))
            /\ \A n \in 1..Len(exclude_patterns) :
                   ~Contains(d, exclude_patterns[n])
            /\ d # P_node_modules
            /\ ~Contains(d, P_DS_Store))

\* the names among files, in order, that should_include_file accepts
IncludedFiles(root, files) ==
    SelectSeq(files,
        LAMBDA file :
            should_include_file(PathJoin(root, file), exclude_patterns,
                                gitignore_filter))

\* One round of the first os.walk loop.  os.walk lists the subdirectories
\* in the order of the file system, taken here to be the order of their names.
StructureDir ==
    /\ pc = "structure"
    /\ walk # << >>
    /\ LET rel   == Head(walk)
           root  == DirPath(directory, rel)
           dirs  == KeptDirs(root, Sorted(SubdirNames(tree, rel)))
           level == Count(Remove(root, directory), "/")
           files == IncludedFiles(root, Sorted(FileNames(tree, rel)))
       IN  /\ out' = out
                     \o (IF Relpath(root, directory) # << "." >>
                         THEN << [w |-> "dir", level |-> level,
                                  name |-> Basename(root), path |-> root] >>
                         ELSE << >>)
                     \o [n \in 1..Len(files) |->
                            [w |-> "file", level |-> level + 1,
                             name |-> files[n],
                             path |-> PathJoin(root, files[n])]]
           /\ walk' = [n \in 1..Len(dirs) |-> Append(rel, dirs[n])] \o Tail(walk)
    /\ UNCHANGED << inputs, pc, gitignore_filter, pending,
                    total_original_size, total_minified_size, message, ret >>

\* Between the two passes
StructureEnd ==
    /\ pc = "structure"
    /\ walk = << >>
    /\ out' = out \o << [w |-> "</structure>"], [w |-> "<files>"] >>
    /\ walk' = << << >> >>
    /\ pc' = "files"
    /\ UNCHANGED << inputs, gitignore_filter, pending, total_original_size,
                    total_minified_size, message, ret >>

\* The head of one round of the second os.walk loop: nothing is pruned
ContentDir ==
    /\ pc = "files"
    /\ pending[2] = << >>
    /\ walk # << >>
    /\ LET rel  == Head(walk)
           dirs == Sorted(SubdirNames(tree, rel))
       IN  /\ pending' = << rel, Sorted(FileNames(tree, rel)) >>
           /\ walk' = [n \in 1..Len(dirs) |-> Append(rel, dirs[n])] \o Tail(walk)
    /\ UNCHANGED << inputs, pc, gitignore_filter, out, total_original_size,
                    total_minified_size, message, ret >>

\* Formatted adding the original size to both totals
Formatted_adds_original_twice(mini, orig_size, f) ==
    IF f.raises
    THEN [written |-> << >>, original |-> orig_size, minified |-> 0]
    ELSE [written  |-> << [w |-> "block", header |-> f.header, text |-> f.text] >>,
          original |-> orig_size,
          minified |-> orig_size]

\* The try statement of the second loop after format_file_content returned
\* or raised f: what is written and what is added to the two totals
Formatted(mini, orig_size, f) ==
    IF f.raises
    THEN [written |-> << >>, original |-> orig_size, minified |-> 0]
    ELSE [written  |-> << [w |-> "block", header |-> f.header, text |-> f.text] >>,
          original |-> orig_size,
          minified |-> IF mini THEN f.header.sizes[2] ELSE 0]

\* The try statement of the second loop on one file that passed the filter.
\* A file that does not decode is skipped before anything is counted; a
\* format_file_content that raises is skipped after the original size was
\* counted.
process_file(file_path, bytes, mini, lib) ==
    IF ~Decodable(bytes) THEN [written |-> << >>, original |-> 0, minified |-> 0]
    ELSE Formatted(mini, IF mini THEN Utf8Len(bytes) ELSE 0,
                   format_file_content(file_path, bytes,
                                       get_file_type(file_path), mini, lib))

\* the writes and the sums of one file
Emit(r) ==
    /\ out' = out \o r.written
    /\ total_original_size' = total_original_size + r.original
    /\ total_minified_size' = total_minified_size + r.minified

\* what the library called for a file may do; one outcome when none is called
Outcomes(file_path, bytes) ==
    IF minify /\ get_file_type(file_path) \in ExternalTypes /\ Decodable(bytes)
    THEN LibraryOutcomes(bytes)
    ELSE {NoLibrary}

\* The body of the second loop for the file at file_path
VisitFile(file_path, bytes) ==
    IF should_include_file(file_path, exclude_patterns, gitignore_filter)
    THEN \E lib \in Outcomes(file_path, bytes) :
            Emit(process_file(file_path, bytes, minify, lib))
    ELSE UNCHANGED << out, total_original_size, total_minified_size >>

\* The body of the second loop for one file
ContentFile ==
    /\ pc = "files"
    /\ pending[2] # << >>
    /\ VisitFile(PathJoin(DirPath(directory, pending[1]), Head(pending[2])),
                 BytesOf(tree, pending[1], Head(pending[2])))
    /\ pending' = << pending[1], Tail(pending[2]) >>
    /\ UNCHANGED << inputs, pc, gitignore_filter, walk, message, ret >>

\* After the second loop: </files>, the statistics when minify is set (the
\* division raises when nothing was counted; the exception is printed, raised
\* again and main returns 1), </project>, and main's return
FilesEnd ==
    /\ pc = "files"
    /\ pending[2] = << >>
    /\ walk = << >>
    /\ pc' = "exit"
    /\ IF minify /\ total_original_size = 0
       THEN /\ out' = Append(out, [w |-> "</files>"])
            /\ message' = "Error: division by zero"
            /\ ret' = "1"
       ELSE /\ out' = out
                      \o << [w |-> "</files>"] >>
                      \o (IF minify
                          THEN << [w |-> "<statistics>",
                                   total_original |-> total_original_size,
                                   total_minified |-> total_minified_size,
                                   reduction |->
                                       Format1f(total_original_size
                                                  - total_minified_size,
                                                total_original_size)] >>
                          ELSE << >>)
                      \o << [w |-> "</project>"] >>
            /\ message' = "Successfully generated context file"
            /\ ret' = "0"
    /\ UNCHANGED << inputs, gitignore_filter, walk, pending,
                    total_original_size, total_minified_size >>

Next ==
    \/ CheckDirectory
    \/ OpenOutput
    \/ StructureDir
    \/ StructureEnd
    \/ ContentDir
    \/ ContentFile
    \/ FilesEnd

Spec == Init /\ [][Next]_vars

(***************************************************************************)
(* Reading the output file                                                 *)
(***************************************************************************)

\* the file lines of the <structure> section and the blocks of <files>
FileLines == SelectSeq(out, LAMBDA e : e.w = "file")
Blocks    == SelectSeq(out, LAMBDA e : e.w = "block")

StructurePaths == [n \in 1..Len(FileLines) |-> FileLines[n].path]
BlockPaths     == [n \in 1..Len(Blocks) |-> Blocks[n].header.path]

\* the path of a file of the tree under the root top
PathOf(top, f) == PathJoin(DirPath(top, f.dir), f.name)

\* p is d or lies beneath it
Under(p, d) == p = d \/ StartsWith(p, d \o SEP)

\* what a block holds between its opening fence line and its closing fence
Fenced(block) == SubSeq(block.text, 4, Len(block.text) - 5)

\* the sum of the k-th size attribute over the blocks
RECURSIVE SumSizes(_, _)
SumSizes(blocks, k) ==
    IF blocks = << >> THEN 0
    ELSE Head(blocks).header.sizes[k] + SumSizes(Tail(blocks), k)

Succeeded == pc = "exit" /\ message = "Successfully generated context file"

\* main is over and both passes over the tree were made
Traversed == pc = "exit" /\ out # << >>

(***************************************************************************)
(* C1                                                                      *)
(***************************************************************************)

\* C1: after process_directory completes, the files listed in <structure> are
\* the files that have a block in <files>, in the same order.
C1_SameFilesSameOrder == Succeeded => StructurePaths = BlockPaths

(***************************************************************************)
(* C2                                                                      *)
(***************************************************************************)

NoiseDirectories == {P_node_modules, P_git, P_svelte_kit, P_build, P_pycache}

\* the directories of the tree, each the sequence of its components
TreeDirs == UNION {{SubSeq(f.dir, 1, k) : k \in 1..Len(f.dir)} : f \in tree}

\* a directory the traversal is said never to enter
ExcludedDir(rel) ==
    \/ rel[Len(rel)] \in NoiseDirectories
    \/ \E n \in 1..Len(exclude_patterns) :
           Contains(rel[Len(rel)], exclude_patterns[n])
    \/ is_ignored(GitignoreFilter(directory), DirPath(directory, rel))

\* C2: a directory that has a noise name, matches an exclude pattern or is
\* ignored is never entered: neither it nor anything beneath it is in
\* <structure>, and no file beneath it is in <files>.
C2_ExcludedSubtreesAbsent ==
    \A rel \in TreeDirs :
        ExcludedDir(rel) =>
            \A n \in 1..Len(out) :
                /\ out[n].w \in {"dir", "file"} =>
                       ~Under(out[n].path, DirPath(directory, rel))
                /\ out[n].w = "block" =>
                       ~Under(out[n].header.path, DirPath(directory, rel))

(***************************************************************************)
(* C3                                                                      *)
(***************************************************************************)

\* C3: the exit status is zero exactly when the bundle was generated, so it is
\* non-zero when the argument is no directory and when process_directory
\* raises; and nothing is written when the argument is no directory.
C3_ExitStatus ==
    pc = "exit" =>
        /\ ExitStatus(ret) = 0 <=> message = "Successfully generated context file"
        /\ message = "Error: not a valid directory" => out = << >>

(***************************************************************************)
(* C4                                                                      *)
(***************************************************************************)

\* a block that carries content as it was read, with sizes that say so
RawBlock(block, content) ==
    /\ Fenced(block) \in {content, content \o << "\n" >>}
    /\ block.header.sizes[1] = block.header.sizes[2]
    /\ block.header.sizes[3] = 0

\* C4: with minification on, a file whose minifier fails (a .json file that
\* does not parse) still gets its block, with the content as read,
\* minified_size equal to original_size and a reduction of 0.0%, and the run
\* ends with exit status zero.
C4_MinifierFailureFallsBack ==
    Traversed /\ minify =>
        \A f \in tree :
            /\ should_include_file(PathOf(directory, f), exclude_patterns,
                                   gitignore_filter)
            /\ Decodable(f.bytes)
            /\ get_file_type(PathOf(directory, f)) = "json"
            /\ ~json_loads(f.bytes).ok
            => /\ \E n \in 1..Len(Blocks) :
                      /\ Blocks[n].header.path = PathOf(directory, f)
                      /\ RawBlock(Blocks[n], f.bytes)
               /\ ExitStatus(ret) = 0
               /\ message = "Successfully generated context file"

(***************************************************************************)
(* C5                                                                      *)
(***************************************************************************)

\* C5: the totals of the <statistics> block are the sums of the original_size
\* and of the minified_size attributes of the blocks written, and its
\* reduction is (total original - total minified) / total original * 100 to
\* one decimal.
C5_StatisticsAreSums ==
    \A n \in 1..Len(out) :
        out[n].w = "<statistics>" =>
            /\ out[n].total_original = SumSizes(Blocks, 1)
            /\ out[n].total_minified = SumSizes(Blocks, 2)
            /\ out[n].reduction =
                   Format1f(SumSizes(Blocks, 1) - SumSizes(Blocks, 2),
                            SumSizes(Blocks, 1))

\* a run with statistics over two blocks of different sizes, one of them a
\* fallback to the raw content, and a file skipped because it does not decode
C5_Witness ==
    /\ Succeeded
    /\ minify
    /\ Len(Blocks) = 2
    /\ \E n \in 1..2 : Blocks[n].header.sizes[1] # Blocks[n].header.sizes[2]
    /\ \E n \in 1..2 : RawBlock(Blocks[n], T_json_cut)
    /\ \E f \in tree :
           /\ ~Decodable(f.bytes)
           /\ should_include_file(PathOf(directory, f), exclude_patterns,
                                  gitignore_filter)

(***************************************************************************)
(* C6                                                                      *)
(***************************************************************************)

IsBinaryName(path) == Lower(Suffix(path)) \in binary_extensions

\* C6: no file whose extension is, in any letter case, one of the binary
\* extensions is listed in <structure> or has a block in <files>.
C6_NoBinaryExtension ==
    \A n \in 1..Len(out) :
        /\ out[n].w = "file" => ~IsBinaryName(out[n].path)
        /\ out[n].w = "block" => ~IsBinaryName(out[n].header.path)

\* a finished run over a tree that holds x.PNG, logo.png and a .gitignore
\* that negates logo.png
C6_Witness ==
    /\ Succeeded
    /\ \E f \in tree : f.name = N_x_PNG /\ Decodable(f.bytes)
    /\ \E f \in tree : f.name = N_logo_png
    /\ \E n \in 1..Len(gitignore_filter.spec) :
           /\ ~gitignore_filter.spec[n].include
           /\ gitignore_filter.spec[n].text = N_logo_png

(***************************************************************************)
(* C8                                                                      *)
(***************************************************************************)

\* the root of the scenario: a.json, b.txt and a .gitignore that names b.txt
Scenario ==
    { File(<< >>, N_a_json, T_json),
      File(<< >>, N_b_txt, T_text),
      File(<< >>, N_gitignore, G_b_txt) }

\* the scenario was run with --minify alone, on a root named proj
ScenarioRun ==
    /\ Traversed
    /\ tree = Scenario
    /\ directory = N_proj
    /\ exclude_patterns = << >>
    /\ minify

\* only a.json has a block, it holds {"a":1} and its header gives the sizes;
\* b.txt and .gitignore are nowhere
ScenarioOutput(minified_size, reduction) ==
    /\ BlockPaths = << PathJoin(N_proj, N_a_json) >>
    /\ Fenced(Blocks[1]) = << "{", "\"", "a", "\"", ":", "1", "}", "\n" >>
    /\ Blocks[1].header.sizes = << 10, minified_size, reduction >>
    /\ StructurePaths = << PathJoin(N_proj, N_a_json) >>

\* the sizes in the header of a block are the byte lengths of the file as
\* read and of the content in the block (which may have gained its final
\* newline), and the reduction is their percentage to one decimal
HeaderSizesAreByteLengths(block) ==
    LET sizes == block.header.sizes
        raw   == (CHOOSE f \in tree : PathOf(directory, f) = block.header.path).bytes
        inner == Fenced(block)
    IN  /\ sizes[1] = Utf8Len(raw)
        /\ sizes[2] \in {Utf8Len(inner), Utf8Len(SubSeq(inner, 1, Len(inner) - 1))}
        /\ sizes[3] = Format1f(sizes[1] - sizes[2], sizes[1])

\* C8 as claimed: the scenario yields original_size="10", minified_size="8"
\* and reduction="20.0%".
C8_ScenarioAsClaimed == ScenarioRun => ScenarioOutput(8, 200)

\* C8 amended: the scenario yields original_size="10", minified_size="7" and
\* reduction="30.0%"; and in every run the sizes of every header are the UTF-8
\* byte lengths of the raw and the minified content, the reduction their
\* percentage to one decimal.
C8_ScenarioAmended ==
    /\ ScenarioRun => ScenarioOutput(7, 300)
    /\ \A n \in 1..Len(Blocks) :
           Blocks[n].header.sizes # << >> => HeaderSizesAreByteLengths(Blocks[n])

\* the scenario was run to its end
C8_Witness == ScenarioRun /\ Succeeded

(***************************************************************************)
(* C9                                                                      *)
(***************************************************************************)

\* the tags of the document in the order they were written
Sections ==
    LET tags == SelectSeq(out, LAMBDA e : e.w \notin {"dir", "file", "block"})
    IN  [n \in 1..Len(tags) |-> tags[n].w]

\* C9: once the output file is open the run ends with the whole document
\* written: <project>, <structure>, <files>, <statistics> if and only if
\* minify is set, </project>.
C9_DocumentIsComplete ==
    Traversed =>
        Sections = << "<project>", "<structure>", "</structure>", "<files>",
                      "</files>" >>
                   \o (IF minify THEN << "<statistics>" >> ELSE << >>)
                   \o << "</project>" >>

(***************************************************************************)
(* C10                                                                     *)
(***************************************************************************)

\* a root directory whose own name holds no skip pattern
NeutralRoot == << "r" >>

\* the structure pass enters the directory rel
Entered(rel) ==
    \A k \in 1..Len(rel) :
        KeptDirs(DirPath(directory, SubSeq(rel, 1, k - 1)), << rel[k] >>) # << >>

\* C10: the files listed are those the filter accepts by their path relative
\* to the root: a run lists a file exactly if the filter accepts the same
\* relative path under a root of another name.
C10_RootNameIsIrrelevant ==
    Succeeded =>
        {Relpath(StructurePaths[n], directory) : n \in 1..Len(StructurePaths)}
        = {Relpath(PathOf(NeutralRoot, f), NeutralRoot) :
              f \in {g \in tree :
                        /\ Entered(g.dir)
                        /\ should_include_file(PathOf(NeutralRoot, g),
                                               exclude_patterns,
                                               GitignoreFilter(NeutralRoot))}}

(***************************************************************************)
(* C7: format_file_content applied to one file of any content              *)
(***************************************************************************)

\* The longest content formatted
MaxContentLen == 3

ContentAlphabet == {"a", "1", " ", "\n"}

Contents == UNION {[1..n -> ContentAlphabet] : n \in 0..MaxContentLen}

InitFormat ==
    /\ \E name \in {N_b_txt, N_a_json, N_m_js}, content \in Contents :
          tree = {File(<< >>, name, content)}
    /\ directory = N_proj
    /\ exclude_patterns = << >>
    /\ minify \in BOOLEAN
    /\ pc = "format"
    /\ gitignore_filter = [root_dir |-> N_proj, spec |-> << >>]
    /\ walk = << >>
    /\ pending = << << >>, << >> >>
    /\ out = << >>
    /\ total_original_size = 0
    /\ total_minified_size = 0
    /\ message = ""
    /\ ret = "unset"

\* the file formatted
TheFile == CHOOSE f \in tree : TRUE

\* format_file_content returned f, or raised
Returned(f) ==
    IF f.raises
    THEN pc' = "raised" /\ out' = out
    ELSE /\ pc' = "formatted"
         /\ out' = << [w |-> "block", header |-> f.header, text |-> f.text] >>

\* One call of format_file_content, as the second loop makes it
FormatFile ==
    /\ pc = "format"
    /\ \E lib \in Outcomes(PathOf(directory, TheFile), TheFile.bytes) :
          Returned(format_file_content(PathOf(directory, TheFile), TheFile.bytes,
                                       get_file_type(PathOf(directory, TheFile)),
                                       minify, lib))
    /\ UNCHANGED << inputs, gitignore_filter, walk, pending,
                    total_original_size, total_minified_size, message, ret >>

NextFormat == FormatFile

SpecFormat == InitFormat /\ [][NextFormat]_vars

\* C7: without minify the text between the fences is the content, followed by
\* one newline exactly if the content did not end in one, and the header has
\* no size attribute; with or without minify the closing fence starts a line.
C7_FencedContent ==
    pc = "formatted" =>
        /\ SubSeq(out[1].text, 1, 3)
               = << FENCE, get_file_type(out[1].header.path), "\n" >>
        /\ SubSeq(out[1].text, Len(out[1].text) - 5, Len(out[1].text))
               = << "\n", FENCE, "\n", "</file>", "\n", "\n" >>
        /\ ~minify =>
              /\ out[1].header.sizes = << >>
              /\ EndsWith(TheFile.bytes, << "\n" >>)
                     => Fenced(out[1]) = TheFile.bytes
              /\ ~EndsWith(TheFile.bytes, << "\n" >>)
                     => Fenced(out[1]) = TheFile.bytes \o << "\n" >>

\* contents that end in a newline, that do not, and the empty one were
\* formatted; here one that ends in a newline, without minify
C7_Witness ==
    /\ pc = "formatted"
    /\ ~minify
    /\ Len(TheFile.bytes) = MaxContentLen
    /\ EndsWith(TheFile.bytes, << "\n" >>)

=============================================================================
